---- MODULE Spec2Model ----
(***************************************************************************)
(* Model of the loan computation core of the mortgage calculator:          *)
(*   src/src/utils/calculator.js   (amortization engine)                   *)
(*   src/unnamed/part_007          (loanProcessor.js: normalizeTaxRate,    *)
(*                                  computeLoanDetails)                    *)
(*                                                                         *)
(* Numbers.  The JavaScript code works on IEEE doubles.  The model uses    *)
(* fixed-point integers and rounds to nearest after every multiplication   *)
(* and division, where a double rounds to its nearest representable value: *)
(*   money          integer money units                                    *)
(*   annualRate     integer percent (5 is 5%), as in the code              *)
(*   years          integer multiples of 1/YearScale of a year, so that    *)
(*                  non-integer terms (1.1 years) can be stated            *)
(*   tax rates      integer multiples of 1/TaxScale (0.065 is 650)         *)
(*   (1+r)^n        integer multiples of 1/PowScale                        *)
(* Equalities of the claims that the spec states "within tolerance" are    *)
(* exact in fixed point wherever the code only adds and subtracts.         *)
(***************************************************************************)
EXTENDS Integers, Sequences, FiniteSets, TLC

(***************************************************************************)
(* Program constants.                                                      *)
(***************************************************************************)
PercentDen == 100
MonthsPerYear == 12
TaxPercentDen == 100
AutoPercentAbove == 1
MaxTermYears == 50
DefaultTermYears == 30

(***************************************************************************)
(* Resolutions of the fixed-point representation (not program constants).  *)
(***************************************************************************)
YearScale == 2 * 5
TaxScale == 10 ^ 4
PowScale == 10 ^ 6

(***************************************************************************)
(* Bounds of the model.                                                    *)
(***************************************************************************)
MaxYears == 3
MaxSubmits == 2
LongTermMaxRate == 6

(***************************************************************************)
(* Fixed-point arithmetic.                                                 *)
(***************************************************************************)
Max(a, b) == IF a >= b THEN a ELSE b

Abs(a) == IF a >= 0 THEN a ELSE -a

\* a / b rounded to the nearest integer (b > 0).
RoundDiv(a, b) == (2 * a + b) \div (2 * b)

\* <<q, r>> with a * b = q * c + r and 0 <= r < c, for a, b >= 0 and
\* 0 < c < 2^26, computed digit by digit of b without forming the product.
RECURSIVE MulQR(_, _, _)
MulQR(a, b, c) ==
  IF b = 0 THEN <<0, 0>>
  ELSE LET h == MulQR(a, b \div 16, c)
           r == 16 * h[2] + (a % c) * (b % 16)
       IN <<16 * h[1] + (a \div c) * (b % 16) + (r \div c), r % c>>

\* a * b / c rounded to the nearest integer.
MulDiv(a, b, c) ==
  IF a = 0 \/ b = 0 THEN 0
  ELSE LET qr == MulQR(a, b, c)
       IN IF 2 * qr[2] >= c THEN qr[1] + 1 ELSE qr[1]

\* x * monthlyRate with monthlyRate = annualRate / 100 / 12.
MulMonthlyRate(x, annualRate) ==
  LET d == PercentDen * MonthsPerYear
  IN (x \div d) * annualRate + RoundDiv((x % d) * annualRate, d)

\* Math.pow(1 + monthlyRate, numberOfPayments) in units of 1/PowScale;
\* numberOfPayments is given in units of 1/YearScale.  The whole part of the
\* exponent is computed by repeated squaring, its fractional part is taken to
\* first order.
RECURSIVE PowInt(_, _)
PowInt(base, k) ==
  IF k = 0 THEN PowScale
  ELSE LET h == PowInt(base, k \div 2)
           sq == MulDiv(h, h, PowScale)
       IN IF k % 2 = 1 THEN MulDiv(sq, base, PowScale) ELSE sq

Pow1p(annualRate, numberOfPayments) ==
  LET base == PowScale + MulMonthlyRate(PowScale, annualRate)
      whole == PowInt(base, numberOfPayments \div YearScale)
      frac == numberOfPayments % YearScale
  IN whole + RoundDiv(MulMonthlyRate(whole, annualRate) * frac, YearScale)

(***************************************************************************)
(* calculator.js                                                           *)
(***************************************************************************)
NumberOfPayments(years) == years * MonthsPerYear

\* Changed payment (used to test the claims, not a model of the code): flat
\* interest, principal / n + principal * r.
calculateMonthlyPaymentFlat(principal, annualRate, years) ==
  RoundDiv(principal * YearScale, NumberOfPayments(years))
    + MulMonthlyRate(principal, annualRate)

calculateMonthlyPayment(principal, annualRate, years) ==
  LET numberOfPayments == NumberOfPayments(years)
  IN IF annualRate = 0
     THEN RoundDiv(principal * YearScale, numberOfPayments)
     ELSE LET pw == Pow1p(annualRate, numberOfPayments)
          IN MulDiv(principal, MulMonthlyRate(pw, annualRate), pw - PowScale)

calculateTotalPaid(monthlyPayment, years) ==
  RoundDiv(monthlyPayment * NumberOfPayments(years), YearScale)

calculateTotalInterest(totalPaid, principal) == totalPaid - principal

\* i === numberOfPayments
IsFinalPeriod(i, numberOfPayments) == i * YearScale = numberOfPayments

\* Changed final branches (used to test the claims, not models of the code):
\* the last period treated like any other,
FinalEntryAsRegular(i, remainingBalance, interestPayment, monthlyPayment) ==
  [paymentNumber |-> i,
   paymentAmount |-> monthlyPayment,
   principalPayment |-> monthlyPayment - interestPayment,
   interestPayment |-> interestPayment,
   remainingBalance |-> Max(0, remainingBalance - (monthlyPayment - interestPayment))]

\* the balance forced to 0 but the principal portion left at payment - interest,
FinalEntryRegularPrincipal(i, remainingBalance, interestPayment, monthlyPayment) ==
  [paymentNumber |-> i,
   paymentAmount |-> monthlyPayment,
   principalPayment |-> monthlyPayment - interestPayment,
   interestPayment |-> interestPayment,
   remainingBalance |-> 0]

\* the principal portion reconciled but the regular payment amount reported.
FinalEntryRegularAmount(i, remainingBalance, interestPayment, monthlyPayment) ==
  [paymentNumber |-> i,
   paymentAmount |-> monthlyPayment,
   principalPayment |-> remainingBalance,
   interestPayment |-> interestPayment,
   remainingBalance |-> 0]

\* the final entry reporting the balance before its payment.
FinalEntryKeepsBalance(i, remainingBalance, interestPayment, monthlyPayment) ==
  [paymentNumber |-> i,
   paymentAmount |-> remainingBalance + interestPayment,
   principalPayment |-> remainingBalance,
   interestPayment |-> interestPayment,
   remainingBalance |-> remainingBalance]

\* The entry pushed by the FINAL PAYMENT ADJUSTMENT branch.
FinalEntry(i, remainingBalance, interestPayment, monthlyPayment) ==
  [paymentNumber |-> i,
   paymentAmount |-> remainingBalance + interestPayment,
   principalPayment |-> remainingBalance,
   interestPayment |-> interestPayment,
   remainingBalance |-> 0]

\* The entry pushed by the REGULAR PAYMENT branch.
RegularEntry(i, remainingBalance, interestPayment, monthlyPayment) ==
  [paymentNumber |-> i,
   paymentAmount |-> monthlyPayment,
   principalPayment |-> monthlyPayment - interestPayment,
   interestPayment |-> interestPayment,
   remainingBalance |-> Max(0, remainingBalance - (monthlyPayment - interestPayment))]

\* Changed iteration: the working balance is
\* clamped like the displayed one.
ScheduleStepClamped(i, remainingBalance, annualRate, numberOfPayments, monthlyPayment) ==
  LET interestPayment == MulMonthlyRate(remainingBalance, annualRate)
  IN IF IsFinalPeriod(i, numberOfPayments)
     THEN [entries |-> <<FinalEntry(i, remainingBalance, interestPayment, monthlyPayment)>>,
           balance |-> 0]
     ELSE [entries |-> <<RegularEntry(i, remainingBalance, interestPayment, monthlyPayment)>>,
           balance |-> Max(0, remainingBalance - (monthlyPayment - interestPayment))]

\* One iteration of the for loop: the entry it pushes and the working balance
\* it leaves.
ScheduleStep(i, remainingBalance, annualRate, numberOfPayments, monthlyPayment) ==
  LET interestPayment == MulMonthlyRate(remainingBalance, annualRate)
  IN IF IsFinalPeriod(i, numberOfPayments)
     THEN [entries |-> <<FinalEntry(i, remainingBalance, interestPayment, monthlyPayment)>>,
           balance |-> 0]
     ELSE [entries |-> <<RegularEntry(i, remainingBalance, interestPayment, monthlyPayment)>>,
           balance |-> remainingBalance - (monthlyPayment - interestPayment)]

\* The iterations lo..hi of the for loop, started with working balance
\* remainingBalance.  The range is halved only to keep the evaluation shallow;
\* the iterations run in order, each on the balance left by the one before.
RECURSIVE ScheduleLoop(_, _, _, _, _, _)
ScheduleLoop(lo, hi, remainingBalance, annualRate, numberOfPayments, monthlyPayment) ==
  IF lo > hi THEN [entries |-> <<>>, balance |-> remainingBalance]
  ELSE IF lo = hi
  THEN ScheduleStep(lo, remainingBalance, annualRate, numberOfPayments, monthlyPayment)
  ELSE LET mid == (lo + hi) \div 2
           first == ScheduleLoop(lo, mid, remainingBalance, annualRate,
                                 numberOfPayments, monthlyPayment)
           rest == ScheduleLoop(mid + 1, hi, first.balance, annualRate,
                                numberOfPayments, monthlyPayment)
       IN [entries |-> first.entries \o rest.entries, balance |-> rest.balance]

\* Changed loop bound: i < numberOfPayments.
LastIterationExclusive(numberOfPayments) == (numberOfPayments - 1) \div YearScale

\* The last i with i <= numberOfPayments.
LastIteration(numberOfPayments) == numberOfPayments \div YearScale

generateAmortizationSchedule(principal, annualRate, years, monthlyPayment) ==
  LET numberOfPayments == NumberOfPayments(years)
  IN ScheduleLoop(1, LastIteration(numberOfPayments), principal, annualRate,
                  numberOfPayments, monthlyPayment).entries

(***************************************************************************)
(* loanProcessor.js: normalizeTaxRate                                      *)
(***************************************************************************)
\* JavaScript values a rate can be handed over as.  The payload v of a number
\* or of a numeric string is in units of 1/TaxScale.
JsNumber(v) == [t |-> "number", v |-> v]
JsNumericString(v) == [t |-> "numstring", v |-> v]
JsText == [t |-> "text", v |-> 0]
JsNull == [t |-> "null", v |-> 0]
JsUndefined == [t |-> "undefined", v |-> 0]
JsNaN == [t |-> "NaN", v |-> 0]
JsInfinity == [t |-> "Infinity", v |-> 0]
JsNegInfinity == [t |-> "-Infinity", v |-> 0]

\* Number(rawRate)
ToNumber(raw) ==
  CASE raw.t = "null" -> JsNumber(0)
    [] raw.t = "numstring" -> JsNumber(raw.v)
    [] raw.t \in {"undefined", "text"} -> JsNaN
    [] OTHER -> raw

\* Number.isFinite
IsFinite(x) == x.t = "number"

\* Changed auto-detection tests: rateNum > 0.2,
LooksLikePercentAboveFifth(v) == 5 * v > AutoPercentAbove * TaxScale

\* and rateNum >= 1.
LooksLikePercentFromOne(v) == v >= AutoPercentAbove * TaxScale

\* The auto-detection test rateNum > 1.
LooksLikePercent(v) == v > AutoPercentAbove * TaxScale

\* Changed validation: rateNum <= 0 is not rejected.
normalizeTaxRateUnguarded(rawRate, format) ==
  LET rateNum == ToNumber(rawRate)
  IN IF ~IsFinite(rateNum) THEN 0
     ELSE IF format = "decimal" THEN rateNum.v
     ELSE IF format = "percent" THEN RoundDiv(rateNum.v, TaxPercentDen)
     ELSE IF LooksLikePercent(rateNum.v) THEN RoundDiv(rateNum.v, TaxPercentDen)
     ELSE rateNum.v

normalizeTaxRate(rawRate, format) ==
  LET rateNum == ToNumber(rawRate)
  IN IF ~IsFinite(rateNum) \/ rateNum.v <= 0 THEN 0
     ELSE IF format = "decimal" THEN rateNum.v
     ELSE IF format = "percent" THEN RoundDiv(rateNum.v, TaxPercentDen)
     ELSE IF LooksLikePercent(rateNum.v) THEN RoundDiv(rateNum.v, TaxPercentDen)
     ELSE rateNum.v

(***************************************************************************)
(* loanProcessor.js: computeLoanDetails                                    *)
(***************************************************************************)
\* Changed tax amount: the rate taken for a percentage once more.
TaxOnHundredth(principal, taxRate) == RoundDiv(principal * taxRate, TaxScale * TaxPercentDen)

\* principal * taxRate
TaxOn(principal, taxRate) == RoundDiv(principal * taxRate, TaxScale)

\* taxInfo?.rate
RateOf(taxInfo) == IF taxInfo.isObject THEN taxInfo.rate ELSE JsUndefined

\* Changed guard: the includeSalesTax flag is not consulted.
WantsLookupIgnoresFlag(data, lookupIsFunction) ==
  data.stateCode # "" /\ lookupIsFunction

\* The guard of the tax lookup.
WantsLookup(data, lookupIsFunction) ==
  data.includeSalesTax /\ data.stateCode # "" /\ lookupIsFunction

\* Changed result: payment and schedule computed on principal, not on
\* financedPrincipal.
LoanResultOnPrincipal(data, taxRate, taxAmount) ==
  LET financedPrincipal == data.principal + taxAmount
      monthlyPayment == calculateMonthlyPayment(data.principal, data.annualRate, data.years)
      totalPaid == calculateTotalPaid(monthlyPayment, data.years)
      totalInterest == calculateTotalInterest(totalPaid, financedPrincipal)
      schedule == generateAmortizationSchedule(data.principal, data.annualRate,
                                               data.years, monthlyPayment)
  IN [loanInfo |-> [principal |-> data.principal,
                    financedPrincipal |-> financedPrincipal,
                    annualRate |-> data.annualRate,
                    years |-> data.years,
                    stateCode |-> data.stateCode,
                    includeSalesTax |-> data.includeSalesTax,
                    taxRate |-> taxRate,
                    taxAmount |-> taxAmount],
      results |-> [monthlyPayment |-> monthlyPayment,
                   totalPaid |-> totalPaid,
                   totalInterest |-> totalInterest],
      schedule |-> schedule]

\* Everything computeLoanDetails does after the tax block, and what it returns.
LoanResult(data, taxRate, taxAmount) ==
  LET financedPrincipal == data.principal + taxAmount
      monthlyPayment == calculateMonthlyPayment(financedPrincipal, data.annualRate, data.years)
      totalPaid == calculateTotalPaid(monthlyPayment, data.years)
      totalInterest == calculateTotalInterest(totalPaid, financedPrincipal)
      schedule == generateAmortizationSchedule(financedPrincipal, data.annualRate,
                                               data.years, monthlyPayment)
  IN [loanInfo |-> [principal |-> data.principal,
                    financedPrincipal |-> financedPrincipal,
                    annualRate |-> data.annualRate,
                    years |-> data.years,
                    stateCode |-> data.stateCode,
                    includeSalesTax |-> data.includeSalesTax,
                    taxRate |-> taxRate,
                    taxAmount |-> taxAmount],
      results |-> [monthlyPayment |-> monthlyPayment,
                   totalPaid |-> totalPaid,
                   totalInterest |-> totalInterest],
      schedule |-> schedule]

(***************************************************************************)
(* calculator.js: validateInputs and the LTV / PMI helpers.  Arguments are *)
(* JavaScript values; an LTV is in 1/LtvScale, a PMI rate (a decimal       *)
(* fraction per year) in 1/PmiScale.                                       *)
(***************************************************************************)
MaxPrincipal == 10 ^ 8
MaxRatePercent == 100
DropOffPercent == 78
LtvScale == 10 ^ 4
PmiScale == 10 ^ 4

\* !x
Falsy(x) == x.t \in {"null", "undefined", "NaN"} \/ (x.t = "number" /\ x.v = 0)

\* x < c and x > c for a numeric literal c: false for NaN and undefined,
\* null compares as 0.
JsLess(x, c) ==
  \/ x.t = "number" /\ x.v < c
  \/ x.t = "null" /\ 0 < c
  \/ x.t = "-Infinity"
JsGreater(x, c) ==
  \/ x.t = "number" /\ x.v > c
  \/ x.t = "null" /\ 0 > c
  \/ x.t = "Infinity"
JsLessEq(x, c) == JsLess(x, c) \/ (x.t = "number" /\ x.v = c) \/ (x.t = "null" /\ c = 0)

\* error: null
NullError == "null"
Valid == [isValid |-> TRUE, error |-> NullError]
Invalid(message) == [isValid |-> FALSE, error |-> message]

\* Changed validateInputs: the three upper limits are tested before the three
\* lower ones.
validateInputsLimitsFirst(principal, annualRate, years) ==
  IF JsGreater(principal, MaxPrincipal)
    THEN Invalid("Loan amount seems too large")
  ELSE IF JsGreater(annualRate, MaxRatePercent)
    THEN Invalid("Interest rate seems too high")
  ELSE IF JsGreater(years, MaxTermYears * YearScale)
    THEN Invalid("Loan term seems too long")
  ELSE IF Falsy(principal) \/ JsLessEq(principal, 0)
    THEN Invalid("Loan amount must be greater than 0")
  ELSE IF annualRate.t \in {"null", "undefined"} \/ JsLess(annualRate, 0)
    THEN Invalid("Interest rate must be 0 or greater")
  ELSE IF Falsy(years) \/ JsLessEq(years, 0)
    THEN Invalid("Loan term must be greater than 0")
  ELSE Valid

\* validateInputs(principal, annualRate, years)
validateInputs(principal, annualRate, years) ==
  IF Falsy(principal) \/ JsLessEq(principal, 0)
    THEN Invalid("Loan amount must be greater than 0")
  ELSE IF annualRate.t \in {"null", "undefined"} \/ JsLess(annualRate, 0)
    THEN Invalid("Interest rate must be 0 or greater")
  ELSE IF Falsy(years) \/ JsLessEq(years, 0)
    THEN Invalid("Loan term must be greater than 0")
  ELSE IF JsGreater(principal, MaxPrincipal)
    THEN Invalid("Loan amount seems too large")
  ELSE IF JsGreater(annualRate, MaxRatePercent)
    THEN Invalid("Interest rate seems too high")
  ELSE IF JsGreater(years, MaxTermYears * YearScale)
    THEN Invalid("Loan term seems too long")
  ELSE Valid

\* Changed calculateLTV: no guard on propertyValue below zero.
calculateLTVUnguarded(loanAmount, propertyValue) ==
  IF Falsy(propertyValue) THEN 0
  ELSE RoundDiv(loanAmount * LtvScale, propertyValue.v)

\* calculateLTV(loanAmount, propertyValue): a number loanAmount, any propertyValue.
calculateLTV(loanAmount, propertyValue) ==
  IF Falsy(propertyValue) \/ JsLessEq(propertyValue, 0) THEN 0
  ELSE RoundDiv(loanAmount * LtvScale, propertyValue.v)

\* calculateMonthlyPMI(loanAmount, annualPMIRate)
calculateMonthlyPMI(loanAmount, annualPMIRate) ==
  IF Falsy(annualPMIRate) \/ JsLessEq(annualPMIRate, 0) THEN 0
  ELSE RoundDiv(loanAmount * annualPMIRate.v, MonthsPerYear * PmiScale)

\* payment.remainingBalance <= propertyValue * 0.78
AtDropOff(payment, propertyValue) ==
  payment.remainingBalance * PercentDen <= DropOffPercent * propertyValue

\* Changed calculatePMIDropOff: the last entry at the target, not the first.
calculatePMIDropOffLast(schedule, propertyValue) ==
  IF Falsy(propertyValue) \/ JsLessEq(propertyValue, 0) THEN JsNull
  ELSE LET hits == {i \in 1..Len(schedule) : AtDropOff(schedule[i], propertyValue.v)}
       IN IF hits = {} THEN JsNull
          ELSE JsNumber(schedule[CHOOSE i \in hits : \A j \in hits : j <= i].paymentNumber)

\* calculatePMIDropOff(schedule, propertyValue): schedule.find takes the entry
\* of least index that passes the test.
calculatePMIDropOff(schedule, propertyValue) ==
  IF Falsy(propertyValue) \/ JsLessEq(propertyValue, 0) THEN JsNull
  ELSE LET hits == {i \in 1..Len(schedule) : AtDropOff(schedule[i], propertyValue.v)}
       IN IF hits = {} THEN JsNull
          ELSE JsNumber(schedule[CHOOSE i \in hits : \A j \in hits : i <= j].paymentNumber)

\* calculateTotalPMI(monthlyPMI, dropOffMonth): a number monthlyPMI, a
\* dropOffMonth that is a number or null.
calculateTotalPMI(monthlyPMI, dropOffMonth) ==
  IF Falsy(dropOffMonth) \/ monthlyPMI <= 0 THEN 0
  ELSE monthlyPMI * dropOffMonth.v

(***************************************************************************)
(* State.                                                                  *)
(***************************************************************************)
VARIABLES
  schedArgs,    \* arguments of a direct call of generateAmortizationSchedule
  schedOut,     \* what it returned (<<>> before the call)
  normArgs,     \* arguments of a direct call of normalizeTaxRate
  normOut,      \* [done, value]: whether it returned, and what
  loanData,     \* the request handed to computeLoanDetails
  taxLookupIsFunction,  \* typeof taxLookup === 'function'
  pc,           \* computeLoanDetails: "idle", "awaiting" (the lookup), "done"
  lookupCalls,  \* how often taxLookup has been invoked
  lookupOutcome,\* "none", "pending", "resolved", "rejected", "threw"
  taxInfo,      \* what the lookup resolved with (NoTaxInfo otherwise)
  settled,      \* the returned promise: "pending", "resolved", "rejected"
  result,       \* the value it resolved with (NoResult before)
  valArgs,      \* arguments of a direct call of validateInputs
  valOut,       \* [done, value]: whether it returned, and what
  pmiCall,      \* a direct call of one LTV / PMI helper: [fn, x, y, schedule]
  pmiOut,       \* [done, value]: whether it returned, and what
  subs,         \* the form's submissions in order: [data, stage, outcome, taxInfo,
                \* result, stale, emittedStale], stage "none", "timer" (in the
                \* 800 ms delay), "awaiting" (the tax lookup) or "done"
  submitted,    \* how many times handleSubmit has run
  isCalculating,\* LoanInputForm.isCalculating
  app,          \* App's data: [showResults, loanInfo, results, schedule]
  resetClean,   \* a reset has happened and no submit since
  svcArg,       \* the stateCode handed to getStateSalesTax
  svcStage,     \* "off", "start", "fetching", "parsing" (res.json()), "done"
  svcTimer,     \* the 5 s abort timer: "unset", "armed", "cleared", "fired"
  svcFetches,   \* how often fetch has been called
  svcProxy,     \* what the proxy did: "none", "network-error", "aborted",
                \* "not-ok", "unparsable", "ok"
  svcOut        \* the returned promise: [settled, rate, source]

vars == <<schedArgs, schedOut, normArgs, normOut, loanData, taxLookupIsFunction,
          pc, lookupCalls, lookupOutcome, taxInfo, settled, result,
          valArgs, valOut, pmiCall, pmiOut,
          subs, submitted, isCalculating, app, resetClean,
          svcArg, svcStage, svcTimer, svcFetches, svcProxy, svcOut>>

schedVars == <<schedArgs, schedOut>>
normVars == <<normArgs, normOut>>
loanVars == <<loanData, taxLookupIsFunction, pc, lookupCalls, lookupOutcome, taxInfo,
              settled, result>>
valVars == <<valArgs, valOut>>
pmiVars == <<pmiCall, pmiOut>>
calcVars == <<valArgs, valOut, pmiCall, pmiOut>>
coreVars == <<schedArgs, schedOut, normArgs, normOut, loanData, taxLookupIsFunction,
              pc, lookupCalls, lookupOutcome, taxInfo, settled, result,
              valArgs, valOut, pmiCall, pmiOut>>
uiVars == <<subs, submitted, isCalculating, app, resetClean>>
svcVars == <<svcArg, svcStage, svcTimer, svcFetches, svcProxy, svcOut>>
extVars == <<uiVars, svcVars>>

(***************************************************************************)
(* Inputs.                                                                 *)
(***************************************************************************)
Principals == {1000, 20000}
Rates == {0, 5, 6, 100}
WholeYears == {y * YearScale : y \in 1..MaxYears}
LongYears == {DefaultTermYears * YearScale, MaxTermYears * YearScale}
PartYears == {YearScale \div 2, YearScale + 1}

\* (annualRate, years): the long terms only at the lower rates, so that
\* (1 + monthlyRate)^n stays within the fixed-point range.
LoanTerms ==
  {t \in Rates \X (WholeYears \cup LongYears \cup PartYears) :
     t[2] \in LongYears => t[1] <= LongTermMaxRate}

IsWholeYears(years) == years % YearScale = 0

RawNumbers ==
  {-TaxScale, -1, 0, 5, 650, 725, 2000, 5000, TaxScale, TaxScale + 1,
   62500, 65000, 72500, 100 * TaxScale, 150 * TaxScale}

RawRates ==
  {JsNumber(v) : v \in RawNumbers} \cup {JsNumericString(65000), JsNumericString(650)}
    \cup {JsText, JsNull, JsUndefined, JsNaN, JsInfinity, JsNegInfinity}

Formats == {"auto", "decimal", "percent", "bps"}

NoSchedArgs == [principal |-> 0, annualRate |-> 0, years |-> 0, monthlyPayment |-> 0, own |-> FALSE]
NoNormArgs == [rawRate |-> JsUndefined, format |-> "auto"]
NoNormOut == [done |-> FALSE, value |-> 0]
NoLoanData == [principal |-> 0, annualRate |-> 0, years |-> 0, stateCode |-> "",
               includeSalesTax |-> FALSE, propertyValue |-> JsUndefined,
               pmiRate |-> JsUndefined, monthlyInsurance |-> JsUndefined]
NoTaxInfo == [isObject |-> FALSE, rate |-> JsUndefined]
NoResult == [loanInfo |-> [principal |-> 0, financedPrincipal |-> 0, annualRate |-> 0,
                           years |-> 0, stateCode |-> "", includeSalesTax |-> FALSE,
                           taxRate |-> 0, taxAmount |-> 0],
             results |-> [monthlyPayment |-> 0, totalPaid |-> 0, totalInterest |-> 0],
             schedule |-> <<>>]

NoValArgs == [principal |-> JsUndefined, annualRate |-> JsUndefined, years |-> JsUndefined]
NoValOut == [done |-> FALSE, value |-> Valid]
NoPmiCall == [fn |-> "", x |-> JsUndefined, y |-> JsUndefined, schedule |-> <<>>]
NoPmiOut == [done |-> FALSE, value |-> JsUndefined]

SchedIdle == schedArgs = NoSchedArgs /\ schedOut = <<>>
ValIdle == valArgs = NoValArgs /\ valOut = NoValOut
PmiIdle == pmiCall = NoPmiCall /\ pmiOut = NoPmiOut

\* A submission that has not happened; App's data as data() returns it.
NoSub == [data |-> NoLoanData, stage |-> "none", outcome |-> "none", taxInfo |-> NoTaxInfo,
          result |-> NoResult, stale |-> FALSE, emittedStale |-> FALSE]
AppEmpty == [showResults |-> FALSE, loanInfo |-> JsNull, results |-> JsNull,
             schedule |-> <<>>]
UiIdle ==
  /\ subs = <<>> /\ submitted = 0 /\ isCalculating = FALSE
  /\ app = AppEmpty /\ resetClean = FALSE
NoSvcOut == [settled |-> "pending", rate |-> JsUndefined, source |-> ""]
SvcIdle ==
  /\ svcArg = "" /\ svcStage = "off" /\ svcTimer = "unset" /\ svcFetches = 0
  /\ svcProxy = "none" /\ svcOut = NoSvcOut
ExtIdle == UiIdle /\ SvcIdle
NormIdle == normArgs = NoNormArgs /\ normOut = NoNormOut
LoanIdle ==
  /\ loanData = NoLoanData /\ taxLookupIsFunction = FALSE /\ pc = "off"
  /\ lookupCalls = 0 /\ lookupOutcome = "none" /\ taxInfo = NoTaxInfo
  /\ settled = "pending" /\ result = NoResult

CoreIdle == SchedIdle /\ NormIdle /\ LoanIdle /\ ValIdle /\ PmiIdle

(***************************************************************************)
(* Direct calls of generateAmortizationSchedule: with the payment          *)
(* calculateMonthlyPayment computes (own) or with any other payment.       *)
(***************************************************************************)
InitSchedule ==
  /\ \E p \in Principals, t \in LoanTerms, own \in BOOLEAN :
       \E mp \in (IF own THEN {calculateMonthlyPayment(p, t[1], t[2])}
                  ELSE {0, p \div 2, 2 * p}) :
         schedArgs = [principal |-> p, annualRate |-> t[1], years |-> t[2],
                      monthlyPayment |-> mp, own |-> own]
  /\ schedOut = <<>>
  /\ NormIdle /\ LoanIdle /\ ValIdle /\ PmiIdle /\ ExtIdle

Generate ==
  /\ schedArgs # NoSchedArgs
  /\ schedOut = <<>>
  /\ schedOut' = generateAmortizationSchedule(schedArgs.principal, schedArgs.annualRate,
                                              schedArgs.years, schedArgs.monthlyPayment)
  /\ UNCHANGED <<schedArgs, normVars, loanVars, calcVars, extVars>>

NextSchedule == Generate

SpecSchedule == InitSchedule /\ [][NextSchedule]_vars

(***************************************************************************)
(* Direct calls of normalizeTaxRate.                                       *)
(***************************************************************************)
InitNormalize ==
  /\ \E raw \in RawRates, f \in Formats : normArgs = [rawRate |-> raw, format |-> f]
  /\ normOut = NoNormOut
  /\ SchedIdle /\ LoanIdle /\ ValIdle /\ PmiIdle /\ ExtIdle

Normalize ==
  /\ ~normOut.done
  /\ normArgs \in [rawRate : RawRates, format : Formats]
  /\ normOut' = [done |-> TRUE, value |-> normalizeTaxRate(normArgs.rawRate, normArgs.format)]
  /\ UNCHANGED <<normArgs, schedVars, loanVars, calcVars, extVars>>

NextNormalize == Normalize

SpecNormalize == InitNormalize /\ [][NextNormalize]_vars

(***************************************************************************)
(* One invocation of computeLoanDetails with an injected taxLookup.        *)
(***************************************************************************)
TaxInfos ==
  {[isObject |-> TRUE, rate |-> r] :
     r \in {JsNumber(v) : v \in {0, 650, 5000, TaxScale, 62500, 100 * TaxScale, 150 * TaxScale}}
             \cup {JsNaN, JsUndefined}}
    \cup {[isObject |-> FALSE, rate |-> JsUndefined]}

\* What a request carries besides the five fields computeLoanDetails reads:
\* propertyValue (money), pmiRate (a percentage, in 1/PmiScale) and
\* monthlyInsurance (money), each possibly left out.
LoanExtras ==
  {[propertyValue |-> JsUndefined, pmiRate |-> JsNumber(PmiScale \div 2),
    monthlyInsurance |-> JsUndefined],
   [propertyValue |-> JsNumber(1250), pmiRate |-> JsNumber(PmiScale \div 2),
    monthlyInsurance |-> JsNumber(150)],
   [propertyValue |-> JsNumber(22000), pmiRate |-> JsNumber(0),
    monthlyInsurance |-> JsNumber(150)]}

InitWith(terms) ==
  /\ \E p \in Principals, t \in terms, sc \in {"", "CA"}, inc \in BOOLEAN,
        x \in LoanExtras :
       loanData = [principal |-> p, annualRate |-> t[1], years |-> t[2],
                   stateCode |-> sc, includeSalesTax |-> inc,
                   propertyValue |-> x.propertyValue, pmiRate |-> x.pmiRate,
                   monthlyInsurance |-> x.monthlyInsurance]
  /\ taxLookupIsFunction \in BOOLEAN
  /\ pc = "idle"
  /\ lookupCalls = 0
  /\ lookupOutcome = "none"
  /\ taxInfo = NoTaxInfo
  /\ settled = "pending"
  /\ result = NoResult
  /\ SchedIdle /\ NormIdle /\ ValIdle /\ PmiIdle /\ ExtIdle

Init == InitWith(LoanTerms)

\* return { loanInfo, results, schedule }
Return(taxRate, taxAmount) ==
  /\ pc' = "done"
  /\ settled' = "resolved"
  /\ result' = LoanResult(loanData, taxRate, taxAmount)

\* The call runs to its end without a lookup.
ComputeWithoutLookup ==
  /\ pc = "idle"
  /\ ~WantsLookup(loanData, taxLookupIsFunction)
  /\ Return(0, 0)
  /\ UNCHANGED <<loanData, taxLookupIsFunction, lookupCalls, lookupOutcome, taxInfo,
                 schedVars, normVars, calcVars, extVars>>

\* The call invokes taxLookup(stateCode) and suspends at the await.
ComputeCallsLookup ==
  /\ pc = "idle"
  /\ WantsLookup(loanData, taxLookupIsFunction)
  /\ lookupCalls' = lookupCalls + 1
  /\ lookupOutcome' = "pending"
  /\ pc' = "awaiting"
  /\ UNCHANGED <<loanData, taxLookupIsFunction, taxInfo, settled, result, schedVars, normVars, calcVars, extVars>>

\* taxLookup throws before returning a promise: the catch block runs.
ComputeLookupThrows ==
  /\ pc = "idle"
  /\ WantsLookup(loanData, taxLookupIsFunction)
  /\ lookupCalls' = lookupCalls + 1
  /\ lookupOutcome' = "threw"
  /\ Return(0, 0)
  /\ UNCHANGED <<loanData, taxLookupIsFunction, taxInfo, schedVars, normVars, calcVars, extVars>>

\* The awaited lookup resolves with taxInfo.
LookupResolves ==
  /\ pc = "awaiting"
  /\ \E info \in TaxInfos :
       LET taxRate == normalizeTaxRate(RateOf(info), "auto")
       IN /\ taxInfo' = info
          /\ Return(taxRate, TaxOn(loanData.principal, taxRate))
  /\ lookupOutcome' = "resolved"
  /\ UNCHANGED <<loanData, taxLookupIsFunction, lookupCalls, schedVars, normVars, calcVars, extVars>>

\* Changed handler: no catch block, the rejection reaches the caller.
LookupRejectsUncaught ==
  /\ pc = "awaiting"
  /\ lookupOutcome' = "rejected"
  /\ pc' = "done"
  /\ settled' = "rejected"
  /\ UNCHANGED <<loanData, taxLookupIsFunction, lookupCalls, taxInfo, result,
                 schedVars, normVars, calcVars, extVars>>

\* Changed handler: the rejection is swallowed and the call never settles.
LookupRejectsHangs ==
  /\ pc = "awaiting"
  /\ lookupOutcome' = "rejected"
  /\ pc' = "hung"
  /\ UNCHANGED <<loanData, taxLookupIsFunction, lookupCalls, taxInfo, settled, result,
                 schedVars, normVars, calcVars, extVars>>

\* The awaited lookup rejects: the catch block runs.
LookupRejects ==
  /\ pc = "awaiting"
  /\ lookupOutcome' = "rejected"
  /\ Return(0, 0)
  /\ UNCHANGED <<loanData, taxLookupIsFunction, lookupCalls, taxInfo, schedVars, normVars, calcVars, extVars>>

Next ==
  \/ ComputeWithoutLookup
  \/ ComputeCallsLookup
  \/ ComputeLookupThrows
  \/ LookupResolves
  \/ LookupRejects

Spec == Init /\ [][Next]_vars

\* Calls on one-year loans, with the JavaScript engine running every
\* continuation that is ready and the lookup, once invoked, settling at some
\* time: a call that is at its start or at its await moves on.  (Every step
\* of Next from those two positions is such a move.)
ShortTerms == {<<r, YearScale>> : r \in {0, 6}}
InitShort == InitWith(ShortTerms)
Advances == pc \in {"idle", "awaiting"} /\ pc' \in {"awaiting", "done"} /\ pc' # pc
FairSpec == InitShort /\ [][Next]_vars /\ WF_pc(Advances)

(***************************************************************************)
(* LoanInputForm and App: submissions, each running computeLoanDetails     *)
(* with the default lookup, and resets.                                    *)
(***************************************************************************)
\* What handleSubmit snapshots after its own checks.
FormRequests ==
  {[principal |-> 1000, annualRate |-> 6, years |-> YearScale, stateCode |-> "CA",
    includeSalesTax |-> TRUE, propertyValue |-> JsUndefined, pmiRate |-> JsUndefined,
    monthlyInsurance |-> JsUndefined],
   [principal |-> 20000, annualRate |-> 6, years |-> YearScale, stateCode |-> "TX",
    includeSalesTax |-> TRUE, propertyValue |-> JsUndefined, pmiRate |-> JsUndefined,
    monthlyInsurance |-> JsUndefined],
   [principal |-> 20000, annualRate |-> 0, years |-> YearScale, stateCode |-> "",
    includeSalesTax |-> FALSE, propertyValue |-> JsUndefined, pmiRate |-> JsUndefined,
    monthlyInsurance |-> JsUndefined]}

\* What getStateSalesTax resolves with: a decimal rate, a percentage, no rate.
FormTaxInfos ==
  {[isObject |-> TRUE, rate |-> r] : r \in {JsNumber(725), JsNumber(62500), JsUndefined}}

InitApp ==
  /\ subs = [i \in 1..MaxSubmits |-> NoSub]
  /\ submitted = 0
  /\ isCalculating = FALSE
  /\ app = AppEmpty
  /\ resetClean = FALSE
  /\ CoreIdle /\ SvcIdle

\* Changed read of the request: a module-level
\* request, overwritten by each invocation, so the latest submission's.
RequestOfLatest(ss, i) ==
  ss[CHOOSE j \in DOMAIN ss :
       /\ ss[j].stage # "none"
       /\ \A k \in DOMAIN ss : ss[k].stage # "none" => k <= j].data

\* const { principal, ... } = loanData: the invocation's own argument.
RequestOf(ss, i) == ss[i].data

\* What invocation i of computeLoanDetails resolves with, given the lookup's
\* outcome.
ResultOf(ss, i, outcome, info) ==
  LET taxRate == IF outcome = "resolved" THEN normalizeTaxRate(RateOf(info), "auto") ELSE 0
  IN LoanResult(RequestOf(ss, i), taxRate, TaxOn(RequestOf(ss, i).principal, taxRate))

\* App.handleCalculate after its await: the bundle is stored and shown.
Shown(bundle) ==
  [showResults |-> TRUE, loanInfo |-> bundle.loanInfo, results |-> bundle.results,
   schedule |-> bundle.schedule]

\* LoanInputForm.handleSubmit: the snapshot is taken and the 800 ms timer set.
HandleSubmit ==
  /\ submitted < MaxSubmits
  /\ \E d \in FormRequests :
       subs' = [subs EXCEPT ![submitted + 1] = [NoSub EXCEPT !.data = d, !.stage = "timer"]]
  /\ submitted' = submitted + 1
  /\ isCalculating' = TRUE
  /\ resetClean' = FALSE
  /\ UNCHANGED <<app, coreVars, svcVars>>

\* The timer of submission i fires: 'calculate' is emitted, App.handleCalculate
\* validates and calls computeLoanDetails, which needs no lookup and resolves;
\* the continuation stores the bundle.
EmitAndCompute(i) ==
  /\ subs[i].stage = "timer"
  /\ validateInputs(JsNumber(subs[i].data.principal), JsNumber(subs[i].data.annualRate),
                    JsNumber(subs[i].data.years)).isValid
  /\ ~WantsLookup(RequestOf(subs, i), TRUE)
  /\ LET bundle == ResultOf(subs, i, "none", NoTaxInfo)
     IN /\ subs' = [subs EXCEPT ![i].stage = "done", ![i].result = bundle,
                                ![i].emittedStale = subs[i].stale]
        /\ app' = Shown(bundle)
  /\ isCalculating' = FALSE
  /\ UNCHANGED <<submitted, resetClean, coreVars, svcVars>>

\* The timer of submission i fires and computeLoanDetails suspends at the
\* awaited lookup.
EmitAndAwait(i) ==
  /\ subs[i].stage = "timer"
  /\ validateInputs(JsNumber(subs[i].data.principal), JsNumber(subs[i].data.annualRate),
                    JsNumber(subs[i].data.years)).isValid
  /\ WantsLookup(RequestOf(subs, i), TRUE)
  /\ subs' = [subs EXCEPT ![i].stage = "awaiting", ![i].outcome = "pending",
                          ![i].emittedStale = subs[i].stale]
  /\ isCalculating' = FALSE
  /\ UNCHANGED <<submitted, app, resetClean, coreVars, svcVars>>

\* The lookup of submission i resolves: computeLoanDetails resolves and the
\* continuation of handleCalculate stores the bundle.
LookupDone(i) ==
  /\ subs[i].stage = "awaiting"
  /\ \E info \in FormTaxInfos :
       LET bundle == ResultOf(subs, i, "resolved", info)
       IN /\ subs' = [subs EXCEPT ![i].stage = "done", ![i].outcome = "resolved",
                                  ![i].taxInfo = info, ![i].result = bundle]
          /\ app' = Shown(bundle)
  /\ UNCHANGED <<submitted, isCalculating, resetClean, coreVars, svcVars>>

\* The reset button (shown while results are shown): LoanInputForm.handleReset
\* clears the fields and emits 'reset', App.handleReset clears App's data.
\* Neither touches calculateTimeout or a pending call.
HandleReset ==
  /\ app.showResults
  /\ app' = AppEmpty
  /\ resetClean' = TRUE
  /\ subs' = [i \in 1..MaxSubmits |->
               IF subs[i].stage \in {"timer", "awaiting"}
                 THEN [subs[i] EXCEPT !.stale = TRUE] ELSE subs[i]]
  /\ UNCHANGED <<submitted, isCalculating, coreVars, svcVars>>

NextApp ==
  \/ HandleSubmit
  \/ \E i \in 1..MaxSubmits : EmitAndCompute(i)
  \/ \E i \in 1..MaxSubmits : EmitAndAwait(i)
  \/ \E i \in 1..MaxSubmits : LookupDone(i)
  \/ HandleReset

SpecApp == InitApp /\ [][NextApp]_vars

(***************************************************************************)
(* Direct calls of validateInputs.                                         *)
(***************************************************************************)
ValPrincipals ==
  {JsNull, JsUndefined, JsNaN}
    \cup {JsNumber(v) : v \in {-1, 0, 200000, MaxPrincipal, MaxPrincipal + 1}}
ValRates ==
  {JsNull, JsUndefined, JsNaN}
    \cup {JsNumber(v) : v \in {-1, 0, 5, MaxRatePercent, MaxRatePercent + 1}}
ValYears ==
  {JsNull, JsUndefined, JsNaN}
    \cup {JsNumber(v) : v \in {-YearScale, 0, DefaultTermYears * YearScale,
                                MaxTermYears * YearScale, MaxTermYears * YearScale + 1}}

InitValidate ==
  /\ \E p \in ValPrincipals, r \in ValRates, y \in ValYears :
       valArgs = [principal |-> p, annualRate |-> r, years |-> y]
  /\ valOut = NoValOut
  /\ SchedIdle /\ NormIdle /\ LoanIdle /\ PmiIdle /\ ExtIdle

Validate ==
  /\ ~valOut.done
  /\ valOut' = [done |-> TRUE,
                value |-> validateInputs(valArgs.principal, valArgs.annualRate, valArgs.years)]
  /\ UNCHANGED <<valArgs, schedVars, normVars, loanVars, pmiVars, extVars>>

NextValidate == Validate

SpecValidate == InitValidate /\ [][NextValidate]_vars

(***************************************************************************)
(* Direct calls of calculateLTV, calculateMonthlyPMI, calculatePMIDropOff  *)
(* and calculateTotalPMI.                                                  *)
(***************************************************************************)
LoanAmounts == {0} \cup Principals
PropertyValues ==
  {JsNull, JsUndefined} \cup {JsNumber(v) : v \in {-100, 0, 1, 1000, 1250, 25000}}
PmiRates == {JsNull} \cup {JsNumber(v) : v \in {-100, 0, 50, 80}}
MonthlyPmis == {-5, 0, 7, 300}
DropOffMonths == {JsNull} \cup {JsNumber(v) : v \in {0, 1, 59}}
\* Generated schedules over whole years (ending at balance 0), with the
\* computed payment and with a payment of 0,
WholeYearSchedules ==
  UNION {{generateAmortizationSchedule(p, r, y, mp) :
            mp \in {calculateMonthlyPayment(p, r, y), 0}} :
         p \in Principals, r \in {0, 6}, y \in {YearScale, MaxYears * YearScale}}
\* and over 1.1 years (13 entries, none of them the final one).
PartYearSchedules ==
  {generateAmortizationSchedule(p, r, YearScale + 1,
                                calculateMonthlyPayment(p, r, YearScale + 1)) :
     p \in Principals, r \in {0, 6}}
PmiSchedules == {<<>>} \cup WholeYearSchedules \cup PartYearSchedules

InitPmi ==
  /\ \/ \E a \in LoanAmounts, v \in PropertyValues :
          pmiCall = [fn |-> "calculateLTV", x |-> JsNumber(a), y |-> v, schedule |-> <<>>]
     \/ \E a \in LoanAmounts, r \in PmiRates :
          pmiCall = [fn |-> "calculateMonthlyPMI", x |-> JsNumber(a), y |-> r,
                     schedule |-> <<>>]
     \/ \E sch \in PmiSchedules, v \in PropertyValues :
          pmiCall = [fn |-> "calculatePMIDropOff", x |-> JsUndefined, y |-> v,
                     schedule |-> sch]
     \/ \E m \in MonthlyPmis, d \in DropOffMonths :
          pmiCall = [fn |-> "calculateTotalPMI", x |-> JsNumber(m), y |-> d,
                     schedule |-> <<>>]
  /\ pmiOut = NoPmiOut
  /\ SchedIdle /\ NormIdle /\ LoanIdle /\ ValIdle /\ ExtIdle

Returns(value) ==
  /\ ~pmiOut.done
  /\ pmiOut' = [done |-> TRUE, value |-> value]
  /\ UNCHANGED <<pmiCall, schedVars, normVars, loanVars, valVars, extVars>>

CallLTV ==
  /\ pmiCall.fn = "calculateLTV"
  /\ Returns(JsNumber(calculateLTV(pmiCall.x.v, pmiCall.y)))

CallMonthlyPMI ==
  /\ pmiCall.fn = "calculateMonthlyPMI"
  /\ Returns(JsNumber(calculateMonthlyPMI(pmiCall.x.v, pmiCall.y)))

CallPMIDropOff ==
  /\ pmiCall.fn = "calculatePMIDropOff"
  /\ Returns(calculatePMIDropOff(pmiCall.schedule, pmiCall.y))

CallTotalPMI ==
  /\ pmiCall.fn = "calculateTotalPMI"
  /\ Returns(JsNumber(calculateTotalPMI(pmiCall.x.v, pmiCall.y)))

NextPmi ==
  \/ CallLTV
  \/ CallMonthlyPMI
  \/ CallPMIDropOff
  \/ CallTotalPMI

SpecPmi == InitPmi /\ [][NextPmi]_vars

(***************************************************************************)
(* getStateSalesTax (taxService.js): one call, with the proxy's behaviour  *)
(* chosen by the environment.  Rates are in 1/TaxScale.                    *)
(***************************************************************************)

\* String.prototype.toUpperCase on the state codes used here
toUpperCase(s) ==
  CASE s \in {"ca", "CA"} -> "CA"
    [] s \in {"tx", "Tx", "TX"} -> "TX"
    [] s \in {"Ny", "NY"} -> "NY"
    [] s \in {"or", "OR"} -> "OR"
    [] s \in {"zz", "ZZ"} -> "ZZ"
    [] OTHER -> s

\* the entries of the static table that the model uses
STATE_BASE_SALES_TAX ==
  ("CA" :> 725) @@ ("TX" :> 625) @@ ("NY" :> 400) @@ ("OR" :> 0)

\* STATE_BASE_SALES_TAX[code] ?? 0, returned with source 'static'
StaticFallback(code) ==
  [settled |-> "resolved",
   rate    |-> IF code \in DOMAIN STATE_BASE_SALES_TAX
               THEN STATE_BASE_SALES_TAX[code] ELSE 0,
   source  |-> "static"]

\* the state codes a caller passes (strings; the empty one is falsy)
SvcArgs == {"", "ca", "CA", "tx", "Tx", "TX", "Ny", "or", "OR", "zz", "ZZ"}

\* the bodies a proxy answers with when it answers 200 with JSON
ProxyBodies ==
  {[rate |-> 725, source |-> "taxjar"],
   [rate |-> 825, source |-> "taxjar"],
   [rate |-> 0, source |-> "proxy"]}

InitTax ==
  /\ CoreIdle /\ UiIdle
  /\ svcArg \in SvcArgs
  /\ svcStage = "start" /\ svcTimer = "unset" /\ svcFetches = 0
  /\ svcProxy = "none" /\ svcOut = NoSvcOut

\* entry: upper-case the code; an empty code returns at once, any other
\* arms the 5 s timer and calls fetch
SvcCall ==
  /\ svcStage = "start"
  /\ IF toUpperCase(svcArg) = ""
     THEN /\ svcOut' = [settled |-> "resolved", rate |-> 0, source |-> "none"]
          /\ svcStage' = "done"
          /\ UNCHANGED <<svcTimer, svcFetches>>
     ELSE /\ svcTimer' = "armed"
          /\ svcFetches' = svcFetches + 1
          /\ svcStage' = "fetching"
          /\ UNCHANGED svcOut
  /\ UNCHANGED <<svcArg, svcProxy, coreVars, uiVars>>

\* the catch block followed by the static fallback
CatchToStatic(how) ==
  /\ svcProxy' = how
  /\ svcOut' = StaticFallback(toUpperCase(svcArg))
  /\ svcStage' = "done"

\* fetch rejects (proxy down): the timer is left armed
FetchFails ==
  /\ svcStage = "fetching"
  /\ CatchToStatic("network-error")
  /\ UNCHANGED <<svcArg, svcTimer, svcFetches, coreVars, uiVars>>

\* the timer fires while fetch is pending: abort() makes fetch reject
TimerAborts ==
  /\ svcStage = "fetching" /\ svcTimer = "armed"
  /\ svcTimer' = "fired"
  /\ CatchToStatic("aborted")
  /\ UNCHANGED <<svcArg, svcFetches, coreVars, uiVars>>

\* fetch resolves with a response: the timer is cleared; a non-OK status
\* falls through to the static fallback
FetchResponds ==
  /\ svcStage = "fetching"
  /\ svcTimer' = "cleared"
  /\ \E ok \in BOOLEAN :
       IF ok
       THEN /\ svcStage' = "parsing"
            /\ UNCHANGED <<svcProxy, svcOut>>
       ELSE /\ svcProxy' = "not-ok"
            /\ svcOut' = StaticFallback(toUpperCase(svcArg))
            /\ svcStage' = "done"
  /\ UNCHANGED <<svcArg, svcFetches, coreVars, uiVars>>

\* res.json() rejects, outside any try block: the promise rejects
ParseFailsUncaught ==
  /\ svcStage = "parsing"
  /\ svcProxy' = "unparsable"
  /\ svcOut' = [NoSvcOut EXCEPT !.settled = "rejected"]
  /\ svcStage' = "done"
  /\ UNCHANGED <<svcArg, svcTimer, svcFetches, coreVars, uiVars>>

\* res.json() rejects inside the try block
ParseFails ==
  /\ svcStage = "parsing"
  /\ CatchToStatic("unparsable")
  /\ UNCHANGED <<svcArg, svcTimer, svcFetches, coreVars, uiVars>>

\* res.json() resolves: the body is returned as it is
ParseSucceeds ==
  /\ svcStage = "parsing"
  /\ \E body \in ProxyBodies :
       svcOut' = [settled |-> "resolved", rate |-> body.rate,
                  source |-> body.source]
  /\ svcProxy' = "ok"
  /\ svcStage' = "done"
  /\ UNCHANGED <<svcArg, svcTimer, svcFetches, coreVars, uiVars>>

\* the timer of a call whose fetch rejected fires later: abort() on a
\* finished request changes nothing
TimerFiresLate ==
  /\ svcStage = "done" /\ svcTimer = "armed"
  /\ svcTimer' = "fired"
  /\ UNCHANGED <<svcArg, svcStage, svcFetches, svcProxy, svcOut,
                 coreVars, uiVars>>

NextTax ==
  \/ SvcCall
  \/ FetchFails
  \/ TimerAborts
  \/ FetchResponds
  \/ ParseFails
  \/ ParseSucceeds
  \/ TimerFiresLate

SpecTax == InitTax /\ [][NextTax]_vars

(***************************************************************************)
(* Properties.                                                             *)
(***************************************************************************)
\* The sum of field f over entries lo..hi of schedule s.
RECURSIVE SumField(_, _, _, _)
SumField(s, f, lo, hi) ==
  IF lo > hi THEN 0
  ELSE IF lo = hi THEN s[lo][f]
  ELSE LET mid == (lo + hi) \div 2
       IN SumField(s, f, lo, mid) + SumField(s, f, mid + 1, hi)

SumOf(s, f) == SumField(s, f, 1, Len(s))

\* The direct call of generateAmortizationSchedule has returned.
Generated == schedOut # <<>>

\* a is b / TaxPercentDen up to the rounding of the last digit.
IsHundredthOf(a, b) == 2 * Abs(a * TaxPercentDen - b) <= TaxPercentDen

\* a is p * rate up to the rounding of the last digit.
IsTaxOf(a, p, rate) == 2 * Abs(a * TaxScale - p * rate) <= TaxScale

\* C1: for a valid input (a whole number of years) and the payment computed by
\* calculateMonthlyPayment, the last entry of the schedule has remainingBalance
\* exactly 0.
C1_FinalBalanceZero ==
  (Generated /\ schedArgs.own /\ IsWholeYears(schedArgs.years))
    => schedOut[Len(schedOut)].remainingBalance = 0

\* A 50-year schedule at a positive rate built with the computed payment, whose
\* last-but-one balance is still positive: the final branch closes it.
C1_Witness ==
  /\ Generated /\ schedArgs.own
  /\ schedArgs.years = MaxTermYears * YearScale /\ schedArgs.annualRate > 0
  /\ schedOut[Len(schedOut) - 1].remainingBalance > 0
  /\ schedOut[Len(schedOut)].remainingBalance = 0

\* C2: for a whole number of years and any monthlyPayment, the principal
\* payments of the schedule sum to the principal argument.
C2_PrincipalSum ==
  (Generated /\ IsWholeYears(schedArgs.years))
    => SumOf(schedOut, "principalPayment") = schedArgs.principal

\* A schedule built with a payment of 0 (every regular period adds its interest
\* to the balance): the final entry repays more than the principal lent.
C2_Witness ==
  /\ Generated /\ ~schedArgs.own /\ IsWholeYears(schedArgs.years)
  /\ schedArgs.monthlyPayment = 0 /\ schedArgs.annualRate > 0
  /\ schedOut[Len(schedOut)].principalPayment > schedArgs.principal
  /\ SumOf(schedOut, "principalPayment") = schedArgs.principal

\* C9: in every entry principalPayment + interestPayment = paymentAmount; the
\* paymentAmount of a regular period is the monthlyPayment supplied.
C9_EntryAddsUp ==
  Generated =>
    \A i \in 1..Len(schedOut) :
      /\ schedOut[i].principalPayment + schedOut[i].interestPayment
           = schedOut[i].paymentAmount
      /\ ~IsFinalPeriod(i, NumberOfPayments(schedArgs.years))
           => schedOut[i].paymentAmount = schedArgs.monthlyPayment

\* A schedule whose reconciled final payment differs from the regular one.
C9_Witness ==
  /\ Generated /\ schedArgs.own /\ IsWholeYears(schedArgs.years)
  /\ schedOut[Len(schedOut)].paymentAmount # schedArgs.monthlyPayment
  /\ schedOut[Len(schedOut)].paymentAmount
       = schedOut[Len(schedOut)].principalPayment + schedOut[Len(schedOut)].interestPayment

\* C10: for a whole number of years the schedule has years * 12 entries,
\* numbered 1, 2, ..., years * 12 in that order.
C10_EntriesNumbered ==
  (Generated /\ IsWholeYears(schedArgs.years))
    => /\ Len(schedOut) = (schedArgs.years \div YearScale) * MonthsPerYear
       /\ \A i \in 1..Len(schedOut) : schedOut[i].paymentNumber = i

\* The schedule of the longest term, 50 years: 600 entries, the last numbered 600.
C10_Witness ==
  /\ Generated /\ schedArgs.years = MaxTermYears * YearScale
  /\ Len(schedOut) = MaxTermYears * MonthsPerYear
  /\ schedOut[Len(schedOut)].paymentNumber = MaxTermYears * MonthsPerYear

\* C6: for a finite rawRate > 0, normalizeTaxRate returns rawRate in 'decimal'
\* mode, rawRate / 100 in 'percent' mode, and in 'auto' mode rawRate / 100 if
\* rawRate > 1 and rawRate otherwise.
C6_NormalizeModes ==
  (normOut.done /\ normArgs.rawRate.t = "number" /\ normArgs.rawRate.v > 0)
    => LET v == normArgs.rawRate.v
           out == normOut.value
       IN /\ normArgs.format = "decimal" => out = v
          /\ normArgs.format = "percent" => IsHundredthOf(out, v)
          /\ normArgs.format = "auto"
               => IF v > TaxScale THEN IsHundredthOf(out, v) ELSE out = v

\* 0.5 in auto mode stays 0.5.
C6_Witness ==
  /\ normOut.done /\ normArgs.format = "auto"
  /\ normArgs.rawRate = JsNumber(TaxScale \div 2)
  /\ normOut.value = TaxScale \div 2

\* An input normalizeTaxRate treats as invalid: null, NaN, +/-Infinity, 0, a
\* negative number.
IsInvalidRate(raw) ==
  \/ raw.t \in {"null", "NaN", "Infinity", "-Infinity"}
  \/ raw.t = "number" /\ raw.v <= 0

\* C7: normalizeTaxRate returns 0 for every invalid input, in every format
\* mode (it returns: the call of every input completes with a value).
C7_InvalidGivesZero ==
  (normOut.done /\ IsInvalidRate(normArgs.rawRate)) => normOut.value = 0

\* A negative rate passed in 'decimal' mode, the mode that hands valid rates
\* through unchanged.
C7_Witness ==
  /\ normOut.done /\ normArgs.format = "decimal"
  /\ normArgs.rawRate = JsNumber(-TaxScale)
  /\ normOut.value = 0

\* C3: when taxLookup rejects or throws, computeLoanDetails resolves, with
\* taxRate = 0, taxAmount = 0, financedPrincipal = principal, and payment and
\* schedule computed on the untaxed principal.
C3_LookupFailureFallsBack ==
  (pc = "done" /\ lookupOutcome \in {"rejected", "threw"})
    => /\ settled = "resolved"
       /\ result.loanInfo.taxRate = 0
       /\ result.loanInfo.taxAmount = 0
       /\ result.loanInfo.financedPrincipal = loanData.principal
       /\ result.results.monthlyPayment
            = calculateMonthlyPayment(loanData.principal, loanData.annualRate, loanData.years)
       /\ result.schedule
            = generateAmortizationSchedule(loanData.principal, loanData.annualRate,
                                           loanData.years, result.results.monthlyPayment)

\* The awaited lookup rejected and the call resolved with a schedule.
C3_Witness ==
  /\ pc = "done" /\ lookupOutcome = "rejected" /\ settled = "resolved"
  /\ result.schedule # <<>>

\* C4: taxLookup is invoked at most once, and only if includeSalesTax is true
\* and stateCode is non-empty; when it is not invoked, taxRate and taxAmount
\* are 0.
C4_LookupAtMostOnce ==
  /\ lookupCalls <= 1
  /\ lookupCalls = 1 => (loanData.includeSalesTax /\ loanData.stateCode # "")
  /\ (pc = "done" /\ lookupCalls = 0)
       => (result.loanInfo.taxRate = 0 /\ result.loanInfo.taxAmount = 0)

\* A finished call that did invoke the lookup, once, and taxed the principal.
C4_Witness ==
  /\ pc = "done" /\ lookupCalls = 1 /\ lookupOutcome = "resolved"
  /\ result.loanInfo.taxAmount > 0

\* C5 as stated: taxRate is always in [0, 1) and taxAmount = principal * taxRate.
C5_TaxRateBelowOne ==
  pc = "done"
    => /\ 0 <= result.loanInfo.taxRate /\ result.loanInfo.taxRate < TaxScale
       /\ IsTaxOf(result.loanInfo.taxAmount, loanData.principal, result.loanInfo.taxRate)

\* The returned rate is a number that is exactly 1 or at least 100.
RateOneOrHundredUp(info) ==
  /\ ToNumber(RateOf(info)).t = "number"
  /\ \/ ToNumber(RateOf(info)).v = TaxScale
     \/ ToNumber(RateOf(info)).v >= TaxPercentDen * TaxScale

\* C5 amended: taxRate >= 0 and taxAmount = principal * taxRate always; taxRate
\* is below 1 unless the lookup returned a rate of exactly 1 or of 100 or more.
C5_TaxRateRange ==
  pc = "done"
    => /\ 0 <= result.loanInfo.taxRate
       /\ IsTaxOf(result.loanInfo.taxAmount, loanData.principal, result.loanInfo.taxRate)
       /\ (lookupOutcome = "resolved" /\ RateOneOrHundredUp(taxInfo))
            \/ result.loanInfo.taxRate < TaxScale

\* The lookup returned 6.25 (a percentage): taxRate is 0.0625 and the tax is
\* 6.25% of the principal.
C5_Witness ==
  /\ pc = "done" /\ lookupOutcome = "resolved"
  /\ taxInfo.rate = JsNumber(62500)
  /\ result.loanInfo.taxRate = 625
  /\ result.loanInfo.taxAmount > 0

\* C8: financedPrincipal = principal + taxAmount; monthlyPayment and schedule
\* are computed from financedPrincipal: the first entry's interest is
\* financedPrincipal * monthlyRate, and (for a whole number of years) the
\* principal payments sum to financedPrincipal.
C8_BuiltOnFinancedPrincipal ==
  pc = "done"
    => LET info == result.loanInfo
       IN /\ info.financedPrincipal = loanData.principal + info.taxAmount
          /\ result.results.monthlyPayment
               = calculateMonthlyPayment(info.financedPrincipal, loanData.annualRate,
                                         loanData.years)
          /\ result.schedule[1].interestPayment
               = MulMonthlyRate(info.financedPrincipal, loanData.annualRate)
          /\ IsWholeYears(loanData.years)
               => SumOf(result.schedule, "principalPayment") = info.financedPrincipal

\* A taxed loan over a whole number of years at a positive interest rate.
C8_Witness ==
  /\ pc = "done" /\ result.loanInfo.taxAmount > 0
  /\ IsWholeYears(loanData.years) /\ loanData.annualRate > 0
  /\ result.loanInfo.financedPrincipal > loanData.principal
  /\ result.schedule[1].interestPayment > MulMonthlyRate(loanData.principal, loanData.annualRate)

PropertyValueOf(data) ==
  IF data.propertyValue.t \in {"null", "undefined"} THEN JsNumber(data.principal)
  ELSE data.propertyValue

\* An LTV of 0.80.
PmiAboveLtv == (8 * LtvScale) \div 10

\* The LTV of a request, and whether it calls for PMI.
LtvOf(data) == calculateLTV(data.principal, PropertyValueOf(data))
PmiRequiredFor(data) == LtvOf(data) > PmiAboveLtv

\* A call of computeLoanDetails that has resolved with its bundle.
Resolved == pc = "done" /\ settled = "resolved"

\* C12 as stated: loanInfo contains ltv = principal / propertyValue (from
\* principal, not financedPrincipal) and pmiRequired = (ltv > 0.80), strictly.
C12_LtvAndPmiRequired ==
  Resolved
    => /\ {"ltv", "pmiRequired"} \subseteq DOMAIN result.loanInfo
       /\ result.loanInfo.ltv = LtvOf(loanData)
       /\ result.loanInfo.pmiRequired = (result.loanInfo.ltv > PmiAboveLtv)

\* C13 as stated: with propertyValue omitted, loanInfo has propertyValue =
\* principal, ltv = 1, downPayment = 0 and pmiRequired = true; with it
\* supplied, downPayment = propertyValue - principal.
C13_PropertyValueDefaultsToPrincipal ==
  Resolved
    => /\ {"propertyValue", "ltv", "downPayment", "pmiRequired"}
            \subseteq DOMAIN result.loanInfo
       /\ IF loanData.propertyValue.t = "undefined"
            THEN /\ result.loanInfo.propertyValue = loanData.principal
                 /\ result.loanInfo.ltv = LtvScale
                 /\ result.loanInfo.downPayment = 0
                 /\ result.loanInfo.pmiRequired = TRUE
            ELSE result.loanInfo.downPayment
                   = loanData.propertyValue.v - loanData.principal

\* C14 as stated: results has monthlyPMI = calculateMonthlyPMI(
\* financedPrincipal, pmiRate / 100) when PMI is required and 0 otherwise;
\* pmiDropOffMonth is null and totalPMIPaid is 0 when monthlyPMI is 0, and
\* otherwise pmiDropOffMonth = calculatePMIDropOff(schedule, propertyValue) and
\* totalPMIPaid = monthlyPMI * pmiDropOffMonth.
C14_PmiAmounts ==
  Resolved
    => /\ {"monthlyPMI", "pmiDropOffMonth", "totalPMIPaid"} \subseteq DOMAIN result.results
       /\ result.results.monthlyPMI
            = IF PmiRequiredFor(loanData)
                THEN calculateMonthlyPMI(result.loanInfo.financedPrincipal,
                                         JsNumber(RoundDiv(loanData.pmiRate.v, PercentDen)))
                ELSE 0
       /\ IF result.results.monthlyPMI = 0
            THEN /\ result.results.pmiDropOffMonth = JsNull
                 /\ result.results.totalPMIPaid = 0
            ELSE /\ result.results.pmiDropOffMonth
                      = calculatePMIDropOff(result.schedule, PropertyValueOf(loanData))
                 /\ result.results.totalPMIPaid
                      = calculateTotalPMI(result.results.monthlyPMI,
                                          result.results.pmiDropOffMonth)

\* monthlyInsurance of the request, 0 when omitted.
InsuranceOf(data) ==
  IF data.monthlyInsurance.t = "number" THEN data.monthlyInsurance.v ELSE 0

\* C15 as stated: results.totalMonthlyPayment = results.monthlyPayment +
\* results.monthlyPMI + results.monthlyInsurance, monthlyInsurance being the
\* request's value (0 when omitted).
C15_TotalMonthlyPayment ==
  Resolved
    => /\ {"totalMonthlyPayment", "monthlyPMI", "monthlyInsurance"}
            \subseteq DOMAIN result.results
       /\ result.results.monthlyInsurance = InsuranceOf(loanData)
       /\ result.results.totalMonthlyPayment
            = result.results.monthlyPayment + result.results.monthlyPMI
                + result.results.monthlyInsurance

\* C16 as stated: results.totalPaid is the sum of paymentAmount over the
\* returned schedule, and results.totalInterest = totalPaid - financedPrincipal
\* is the sum of interestPayment over it.
C16_TotalsAreScheduleSums ==
  (Resolved /\ IsWholeYears(loanData.years))
    => /\ result.results.totalPaid = SumOf(result.schedule, "paymentAmount")
       /\ result.results.totalInterest
            = result.results.totalPaid - result.loanInfo.financedPrincipal
       /\ result.results.totalInterest = SumOf(result.schedule, "interestPayment")

\* The six rules in the order the claim lists them: whether the arguments
\* violate rule k, and the message of rule k.
RuleViolated(k, principal, annualRate, years) ==
  CASE k = 1 -> principal.t = "number" /\ principal.v <= 0
    [] k = 2 -> \/ annualRate.t \in {"null", "undefined"}
                \/ annualRate.t = "number" /\ annualRate.v < 0
    [] k = 3 -> years.t = "number" /\ years.v <= 0
    [] k = 4 -> principal.t = "number" /\ principal.v > MaxPrincipal
    [] k = 5 -> annualRate.t = "number" /\ annualRate.v > MaxRatePercent
    [] k = 6 -> years.t = "number" /\ years.v > MaxTermYears * YearScale
RuleMessage ==
  <<"Loan amount must be greater than 0", "Interest rate must be 0 or greater",
    "Loan term must be greater than 0", "Loan amount seems too large",
    "Interest rate seems too high", "Loan term seems too long">>

\* C17: validateInputs returns for every input (it never throws), and when its
\* arguments violate several rules it reports the error of the first violated
\* rule in the order principal <= 0, annualRate null/undefined/negative,
\* years <= 0, principal > 100,000,000, annualRate > 100, years > 50.
C17_FirstViolatedRuleReported ==
  /\ valOut.done
       => /\ valOut.value.isValid \in BOOLEAN
          /\ valOut.value.isValid \/ valOut.value.error \in {RuleMessage[k] : k \in 1..6}
  /\ (valOut.done /\ valArgs.principal.t = "number" /\ valArgs.years.t = "number"
         /\ valArgs.annualRate.t \in {"number", "null", "undefined"})
       => \A k \in 1..6 :
            (/\ RuleViolated(k, valArgs.principal, valArgs.annualRate, valArgs.years)
             /\ \A j \in 1..(k - 1) :
                  ~RuleViolated(j, valArgs.principal, valArgs.annualRate, valArgs.years))
              => valOut.value = Invalid(RuleMessage[k])

\* A principal above the maximum together with a negative rate: the rate
\* error is the one reported.
C17_Witness ==
  /\ valOut.done
  /\ valArgs.principal = JsNumber(MaxPrincipal + 1)
  /\ valArgs.annualRate = JsNumber(-1)
  /\ valOut.value = Invalid("Interest rate must be 0 or greater")

\* 0 < principal <= 100,000,000, 0 <= annualRate <= 100 and 0 < years <= 50.
InRange(principal, annualRate, years) ==
  /\ principal.t = "number" /\ 0 < principal.v /\ principal.v <= MaxPrincipal
  /\ annualRate.t = "number" /\ 0 <= annualRate.v /\ annualRate.v <= MaxRatePercent
  /\ years.t = "number" /\ 0 < years.v /\ years.v <= MaxTermYears * YearScale

\* C18 as stated: validateInputs returns {isValid: true, error: null} if and
\* only if 0 < principal <= 100,000,000, 0 <= annualRate <= 100 and
\* 0 < years <= 50; every other input returns isValid false with a non-null
\* error.
C18_ValidIffInRange ==
  valOut.done
    => IF InRange(valArgs.principal, valArgs.annualRate, valArgs.years)
         THEN valOut.value = Valid
         ELSE ~valOut.value.isValid /\ valOut.value.error # NullError

\* C19: calculatePMIDropOff returns the paymentNumber of the first entry whose
\* remainingBalance <= 0.78 * propertyValue (no earlier entry is at or below
\* it), and null when propertyValue <= 0 or no entry reaches the threshold.
C19_DropOffIsFirstEntryAtTarget ==
  (pmiOut.done /\ pmiCall.fn = "calculatePMIDropOff" /\ pmiCall.y.t = "number")
    => LET sch == pmiCall.schedule
           pv == pmiCall.y.v
           Reached(i) == PercentDen * sch[i].remainingBalance <= DropOffPercent * pv
       IN IF pv <= 0 \/ \A i \in 1..Len(sch) : ~Reached(i)
            THEN pmiOut.value = JsNull
            ELSE /\ pmiOut.value.t = "number"
                 /\ \E k \in 1..Len(sch) :
                      /\ sch[k].paymentNumber = pmiOut.value.v
                      /\ Reached(k)
                      /\ \A j \in 1..(k - 1) : ~Reached(j)

\* A drop-off in the middle of a schedule: after the first entry, with later
\* entries at the target too.
C19_Witness ==
  /\ pmiOut.done /\ pmiCall.fn = "calculatePMIDropOff"
  /\ pmiOut.value.t = "number"
  /\ 1 < pmiOut.value.v /\ pmiOut.value.v < Len(pmiCall.schedule)

\* C20: calculateLTV returns 0 when propertyValue <= 0 and loanAmount /
\* propertyValue otherwise; calculateMonthlyPMI returns 0 when the rate <= 0
\* and loanAmount * rate / 12 otherwise; calculateTotalPMI returns 0 when
\* dropOffMonth is null or 0 or monthlyPMI <= 0, and monthlyPMI * dropOffMonth
\* otherwise.
C20_GuardsReturnSentinels ==
  /\ (pmiOut.done /\ pmiCall.fn = "calculateLTV" /\ pmiCall.y.t = "number")
       => /\ pmiOut.value.t = "number"
          /\ IF pmiCall.y.v <= 0 THEN pmiOut.value.v = 0
             ELSE 2 * Abs(pmiOut.value.v * pmiCall.y.v - pmiCall.x.v * LtvScale)
                    <= pmiCall.y.v
  /\ (pmiOut.done /\ pmiCall.fn = "calculateMonthlyPMI" /\ pmiCall.y.t = "number")
       => /\ pmiOut.value.t = "number"
          /\ IF pmiCall.y.v <= 0 THEN pmiOut.value.v = 0
             ELSE 2 * Abs(pmiOut.value.v * MonthsPerYear * PmiScale
                            - pmiCall.x.v * pmiCall.y.v)
                    <= MonthsPerYear * PmiScale
  /\ (pmiOut.done /\ pmiCall.fn = "calculateTotalPMI")
       => /\ pmiOut.value.t = "number"
          /\ IF pmiCall.y.t = "null" \/ pmiCall.y.v = 0 \/ pmiCall.x.v <= 0
               THEN pmiOut.value.v = 0
               ELSE pmiOut.value.v = pmiCall.x.v * pmiCall.y.v

\* calculateLTV(1000, 1250) = 0.8.
C20_Witness ==
  /\ pmiOut.done /\ pmiCall.fn = "calculateLTV"
  /\ pmiCall.x = JsNumber(1000) /\ pmiCall.y = JsNumber(1250)
  /\ pmiOut.value = JsNumber(PmiAboveLtv)

\* C21: calculateMonthlyPayment returns principal / (years * 12) when
\* annualRate is 0 and principal * r (1 + r)^n / ((1 + r)^n - 1) otherwise,
\* with r = annualRate / 1200 and n = years * 12; a schedule built at 0% with
\* that payment has interestPayment 0 in every entry.
C21_PaymentFormula ==
  schedArgs.own
    => LET n == schedArgs.years * MonthsPerYear
           growth == Pow1p(schedArgs.annualRate, n)
           quotient == MulQR(schedArgs.principal,
                             MulMonthlyRate(growth, schedArgs.annualRate),
                             growth - PowScale)[1]
       IN /\ schedArgs.annualRate = 0
               => /\ 2 * Abs(schedArgs.monthlyPayment * n - schedArgs.principal * YearScale)
                       <= n
                  /\ \A i \in 1..Len(schedOut) : schedOut[i].interestPayment = 0
          /\ schedArgs.annualRate # 0
               => schedArgs.monthlyPayment \in {quotient, quotient + 1}

\* A one-year schedule at 0% built with the computed payment, 20000 / 12
\* rounded to 1667.
C21_Witness ==
  /\ Generated /\ schedArgs.own
  /\ schedArgs.principal = 20000 /\ schedArgs.years = YearScale
  /\ schedArgs.annualRate = 0 /\ schedArgs.monthlyPayment = 1667
  /\ schedOut[1].interestPayment = 0

\* What computeLoanDetails returns for a request when it runs alone and its
\* lookup, if any, resolves with info.
AloneResult(data, outcome, info) ==
  LET taxRate == IF outcome = "resolved" THEN normalizeTaxRate(RateOf(info), "auto") ELSE 0
  IN LoanResult(data, taxRate, TaxOn(data.principal, taxRate))

C23_EventuallyReturns ==
  /\ <>(pc = "done" /\ settled = "resolved")
  /\ [](settled # "rejected")
  /\ [](lookupOutcome = "pending" => (pc = "awaiting" /\ settled = "pending"))

\* The call is suspended at a lookup that has not settled yet.
C23_Witness ==
  /\ pc = "awaiting" /\ lookupOutcome = "pending" /\ lookupCalls = 1
  /\ settled = "pending" /\ result = NoResult

\* The working balance after entry i: the principal less the principal
\* payments made so far, not clamped.
WorkingBalance(i) == schedArgs.principal - SumField(schedOut, "principalPayment", 1, i)

\* C24: the interest of each period is computed from the unclamped working
\* balance left by the period before, also when the reported remainingBalance
\* of that period was clamped to 0; on the final period principalPayment is
\* that working balance and paymentAmount = principalPayment + interest.
C24_InterestOnWorkingBalance ==
  Generated
    => /\ \A i \in 1..Len(schedOut) :
            /\ schedOut[i].interestPayment
                 = MulMonthlyRate(WorkingBalance(i - 1), schedArgs.annualRate)
            /\ i < Len(schedOut)
                 => schedOut[i].remainingBalance = Max(0, WorkingBalance(i))
       /\ IsWholeYears(schedArgs.years)
            => LET last == schedOut[Len(schedOut)]
               IN /\ last.principalPayment = WorkingBalance(Len(schedOut) - 1)
                  /\ last.paymentAmount = last.principalPayment + last.interestPayment
                  /\ last.remainingBalance = 0

\* A payment of twice the principal at a positive rate: the balance shown is
\* 0 from the first entry on, and the final entry carries a negative
\* principal payment and negative interest.
C24_Witness ==
  /\ Generated /\ ~schedArgs.own /\ IsWholeYears(schedArgs.years)
  /\ schedArgs.monthlyPayment = 2 * schedArgs.principal /\ schedArgs.annualRate > 0
  /\ schedOut[1].remainingBalance = 0
  /\ schedOut[Len(schedOut)].principalPayment < 0
  /\ schedOut[Len(schedOut)].interestPayment < 0
  /\ schedOut[Len(schedOut)].paymentAmount < 0

\* C25: getStateSalesTax never rejects; after a network error, an abort by
\* the 5 s timer, a non-OK status or an unparsable body it resolves with the
\* static table rate of the upper-cased code (0 for an unknown code) and
\* source 'static'; for an empty code it resolves with rate 0 and source
\* 'none' and fetch is never called.
ProxyFailures == {"network-error", "aborted", "not-ok", "unparsable"}

ExpectedStaticRate ==
  [a \in SvcArgs |->
     CASE a \in {"ca", "CA"} -> 725
       [] a \in {"tx", "Tx", "TX"} -> 625
       [] a = "Ny" -> 400
       [] OTHER -> 0]

C25_NeverRejects ==
  /\ svcOut.settled # "rejected"
  /\ svcStage = "done" => svcOut.settled = "resolved"
  /\ (svcStage = "done" /\ svcProxy \in ProxyFailures) =>
       /\ svcArg # ""
       /\ svcOut.rate = ExpectedStaticRate[svcArg]
       /\ svcOut.source = "static"
  /\ (svcStage # "off" /\ svcArg = "") =>
       /\ svcFetches = 0
       /\ svcStage = "done" =>
            (svcOut.rate = 0 /\ svcOut.source = "none" /\ svcProxy = "none")

\* a lower-case code whose proxy answered 200 with an unparsable body
C25_Witness ==
  /\ svcStage = "done" /\ svcArg = "ca" /\ svcProxy = "unparsable"
  /\ svcOut = [settled |-> "resolved", rate |-> 725, source |-> "static"]

C27_AcceptedInputsPayOff ==
  (/\ Generated /\ schedArgs.own
   /\ validateInputs(JsNumber(schedArgs.principal), JsNumber(schedArgs.annualRate),
                     JsNumber(schedArgs.years)).isValid)
    => /\ schedOut[Len(schedOut)].remainingBalance = 0
       /\ SumOf(schedOut, "principalPayment") = schedArgs.principal

\* C28 as stated: after a reset made while a submission is inside its 800 ms
\* delay or its computeLoanDetails call awaits the tax lookup, the pending
\* calculation is discarded: no 'calculate' event of a submission from before
\* the reset is emitted afterwards, and App.showResults stays false until a
\* new submit.
C28_ResetDiscardsPending ==
  /\ \A i \in 1..MaxSubmits : ~subs[i].emittedStale
  /\ resetClean => ~app.showResults

\* C29 as stated: what App shows is always the bundle of one single call, and
\* once all submitted calculations have settled it is the bundle of the most
\* recently submitted one, whatever order the tax lookups completed in.
C29_LatestSubmissionShown ==
  /\ app.showResults
       => \E i \in 1..submitted :
            subs[i].stage = "done" /\ app = Shown(subs[i].result)
  /\ (/\ submitted >= 2
      /\ \A i \in 1..submitted : subs[i].stage = "done"
      /\ app.showResults)
       => app = Shown(subs[submitted].result)

\* normalizeTaxRate applied, in auto mode, to what the call returned.
NormalizedAgain == normalizeTaxRate(JsNumber(normOut.value), "auto")

\* A call in auto mode, on a finite number, has returned.
AutoCallDone ==
  normOut.done /\ normArgs.format = "auto" /\ IsFinite(ToNumber(normArgs.rawRate))

\* C30 as stated: in auto mode, for every finite input x,
\* normalizeTaxRate(normalizeTaxRate(x)) = normalizeTaxRate(x).
C30_AutoIdempotent ==
  AutoCallDone => NormalizedAgain = normOut.value

\* C30 amended: in auto mode normalizeTaxRate(normalizeTaxRate(x)) =
\* normalizeTaxRate(x) for every finite x <= 100; for x > 100 the first result
\* is itself above 1 and the second application divides it by 100 again.
C30_AutoIdempotentUpToHundred ==
  AutoCallDone
    => IF ToNumber(normArgs.rawRate).v <= TaxPercentDen * TaxScale
         THEN NormalizedAgain = normOut.value
         ELSE /\ IsHundredthOf(NormalizedAgain, normOut.value)
              /\ NormalizedAgain < normOut.value

\* 6.25 is normalized to 0.0625, and 0.0625 is left as it is.
C30_Witness ==
  /\ AutoCallDone /\ normArgs.rawRate = JsNumber(62500)
  /\ normOut.value = 625 /\ NormalizedAgain = 625

====
